---- MODULE Spec2Model ----
(***************************************************************************)
(* Model of the Sekonic C-7000 reader (src/src/main.rs): the transaction   *)
(* layer make_req, the ParseHelper field cursor, the record decoders and   *)
(* the session that main runs over the device (warm-up, enumeration of     *)
(* titles and captures, capture-data fetch).                               *)
(*                                                                         *)
(* Bytes are naturals 0..255; byte strings are sequences of bytes.         *)
(* A Rust panic (panic!, unwrap on None/Err, slice index out of range)     *)
(* ends the process: the model records its kind and takes no further step. *)
(***************************************************************************)
EXTENDS Integers, Sequences, FiniteSets, TLC

\* ------------------------------------------------------------------------
\* Bounds of the model
\* ------------------------------------------------------------------------
\* largest num_titles the modelled device declares
MaxTitles == 2
\* largest total number of captures the modelled device declares
MaxCaptures == 2
\* longest byte string handed to the field cursor in SpecCursor
MaxLen == 4
\* longest payload handed to ParseHelper::start in SpecOpen
MaxPayloadLen == 6

\* ------------------------------------------------------------------------
\* Byte strings
\* ------------------------------------------------------------------------
COMMA == 44
AT == 64
NUL == 0
PLUS == 43
DIGIT0 == 48

\* RESP_OK / RESP_BADREQ
RESP_OK == <<6, 48>>
RESP_BADREQ == <<21, 50>>

min(a, b) == IF a < b THEN a ELSE b

\* s[from..] : the slice of s starting at 0-based offset from
SliceFrom(s, from) == SubSeq(s, from + 1, Len(s))
\* s[..to] : the slice of the first to bytes
SliceTo(s, to) == SubSeq(s, 1, to)

\* n copies of byte string s
Rep(s, n) == [i \in 1..(n * Len(s)) |-> s[((i - 1) % Len(s)) + 1]]

\* slice::starts_with
StartsWith(s, p) == Len(p) <= Len(s) /\ SliceTo(s, Len(p)) = p

\* decimal digits of n, most significant first (Display for u32)
RECURSIVE Dec(_)
Dec(n) == IF n < 10 THEN <<DIGIT0 + n>> ELSE Dec(n \div 10) \o <<DIGIT0 + (n % 10)>>

\* format!("{n:04}") : zero padded to a MINIMUM width of 4
Fmt04(n) == LET d == Dec(n) IN IF Len(d) >= 4 THEN d ELSE Rep(<<DIGIT0>>, 4 - Len(d)) \o d

\* ------------------------------------------------------------------------
\* std helpers the cursor relies on
\* ------------------------------------------------------------------------
IsCont(b) == b >= 128 /\ b <= 191

\* offset (1-based) of the first byte above 127 at or after i, 0 if none
NextNonAscii(s, i) ==
    LET idx == {j \in i..Len(s) : s[j] > 127}
    IN  IF idx = {} THEN 0 ELSE CHOOSE j \in idx : \A k \in idx : j <= k

\* s is well-formed UTF-8 from offset i on: ASCII runs are skipped, every
\* multi-byte sequence is checked against the ranges of its lead byte
RECURSIVE Utf8From(_, _)
Utf8From(s, i) ==
    LET j == NextNonAscii(s, i)
    IN  IF j = 0 THEN TRUE
        ELSE LET b == s[j]
                 n == Len(s) - j + 1
             IN  IF b >= 194 /\ b <= 223
                 THEN n >= 2 /\ IsCont(s[j + 1]) /\ Utf8From(s, j + 2)
                 ELSE IF b >= 224 /\ b <= 239
                 THEN /\ n >= 3
                      /\ IsCont(s[j + 1])
                      /\ IsCont(s[j + 2])
                      /\ (b = 224 => s[j + 1] >= 160)
                      /\ (b = 237 => s[j + 1] <= 159)
                      /\ Utf8From(s, j + 3)
                 ELSE IF b >= 240 /\ b <= 244
                 THEN /\ n >= 4
                      /\ IsCont(s[j + 1])
                      /\ IsCont(s[j + 2])
                      /\ IsCont(s[j + 3])
                      /\ (b = 240 => s[j + 1] >= 144)
                      /\ (b = 244 => s[j + 1] <= 143)
                      /\ Utf8From(s, j + 4)
                 ELSE FALSE

\* str::from_utf8(s).is_ok()
IsUtf8(s) == Utf8From(s, 1)

IsDigit(b) == b >= DIGIT0 /\ b <= DIGIT0 + 9

\* The checked accumulation of u32::from_str: acc * 10 + digit in 32 bits,
\* carried as two 16-bit limbs so that the overflow test is exact.
\* Result: [ok, hi, lo].
RECURSIVE AccDigits(_, _, _)
AccDigits(ds, hi, lo) ==
    IF ds = <<>> THEN [ok |-> TRUE, hi |-> hi, lo |-> lo]
    ELSE IF ~IsDigit(ds[1]) THEN [ok |-> FALSE, hi |-> 0, lo |-> 0]
    ELSE LET lo2 == lo * 10 + (ds[1] - DIGIT0)
             hi2 == hi * 10 + (lo2 \div 65536)
         IN  IF hi2 >= 65536 THEN [ok |-> FALSE, hi |-> 0, lo |-> 0]
             ELSE AccDigits(SliceFrom(ds, 1), hi2, lo2 % 65536)

\* <u32 as FromStr>::from_str : empty and a lone sign are errors, one leading
\* '+' is accepted, '-' is not (unsigned), every other byte must be a digit,
\* and the value must fit in 32 bits.  Result: [ok, val].
ParseU32(s) ==
    IF s = <<>> \/ s = <<PLUS>> THEN [ok |-> FALSE, val |-> 0]
    ELSE LET ds == IF s[1] = PLUS THEN SliceFrom(s, 1) ELSE s
             a == AccDigits(ds, 0, 0)
         IN  IF a.ok THEN [ok |-> TRUE, val |-> a.hi * 65536 + a.lo]
             ELSE [ok |-> FALSE, val |-> 0]

\* ------------------------------------------------------------------------
\* ParseHelper: the field cursor.  The cursor is its `remaining` slice.
\* ------------------------------------------------------------------------
\* ParseHelper::start.  out = "Some" (rem is the cursor), "None", or "panic"
\* (the slice to_parse[name.len()..name.len() + 2] is out of range).
start(to_parse, name) ==
    IF ~StartsWith(to_parse, name)
    THEN [out |-> "None", rem |-> <<>>]
    ELSE IF Len(name) + 2 > Len(to_parse)
    THEN [out |-> "panic", rem |-> <<>>]
    ELSE IF SubSeq(to_parse, Len(name) + 1, Len(name) + 2) # <<AT, AT>>
    THEN [out |-> "None", rem |-> <<>>]
    ELSE [out |-> "Some", rem |-> SliceFrom(to_parse, Len(name) + 2)]

\* a search that finds the last comma instead of the first
CommaPos_last(rem) ==
    LET idx == {i \in 1..Len(rem) : rem[i] = COMMA}
    IN  IF idx = {} THEN Len(rem)
        ELSE (CHOOSE i \in idx : \A j \in idx : i >= j) - 1

\* iter().position(|b| *b == b',').unwrap_or(len) : 0-based offset of the
\* first comma, or the length
CommaPos(rem) ==
    LET idx == {i \in 1..Len(rem) : rem[i] = COMMA}
    IN  IF idx = {} THEN Len(rem)
        ELSE (CHOOSE i \in idx : \A j \in idx : i <= j) - 1

\* ParseHelper::bytes.  Result: [val, rem].
bytes(rem) ==
    LET len == CommaPos(rem)
    IN  [val |-> SliceTo(rem, len),
         rem |-> SliceFrom(rem, min(Len(rem), len + 1))]

\* bytes_exact that forgets the delimiter: the cursor stops on the comma
bytes_exact_keeps_comma(rem, len) ==
    IF len > Len(rem) \/ (len < Len(rem) /\ rem[len + 1] # COMMA)
    THEN [ok |-> FALSE, val |-> <<>>, rem |-> rem]
    ELSE [ok |-> TRUE,
          val |-> SliceTo(rem, len),
          rem |-> SliceFrom(rem, min(Len(rem), len))]

\* ParseHelper::bytes_exact.  Result: [ok, val, rem]; the cursor is left
\* alone on failure.
bytes_exact(rem, len) ==
    IF len > Len(rem) \/ (len < Len(rem) /\ rem[len + 1] # COMMA)
    THEN [ok |-> FALSE, val |-> <<>>, rem |-> rem]
    ELSE [ok |-> TRUE,
          val |-> SliceTo(rem, len),
          rem |-> SliceFrom(rem, min(Len(rem), len + 1))]

\* ParseHelper::unsigned.  The field is consumed before it is decoded.
unsigned(rem) ==
    LET b == bytes(rem)
        p == ParseU32(b.val)
    IN  IF IsUtf8(b.val) /\ p.ok
        THEN [ok |-> TRUE, val |-> p.val, rem |-> b.rem]
        ELSE [ok |-> FALSE, val |-> 0, rem |-> b.rem]

\* str::find('\0') : 0-based offset of the first NUL, or -1
NulPos(s) ==
    LET idx == {i \in 1..Len(s) : s[i] = NUL}
    IN  IF idx = {} THEN -1
        ELSE (CHOOSE i \in idx : \A j \in idx : i <= j) - 1

\* a string that keeps the bytes behind the NUL pad
string_keeps_padding(rem) ==
    LET b == bytes(rem)
    IN  IF ~IsUtf8(b.val) THEN [ok |-> FALSE, val |-> <<>>, rem |-> b.rem]
        ELSE [ok |-> TRUE, val |-> b.val, rem |-> b.rem]

\* ParseHelper::string
string(rem) ==
    LET b == bytes(rem)
        idx == NulPos(b.val)
    IN  IF ~IsUtf8(b.val) THEN [ok |-> FALSE, val |-> <<>>, rem |-> b.rem]
        ELSE [ok |-> TRUE,
              val |-> IF idx >= 0 THEN SliceTo(b.val, idx) ELSE b.val,
              rem |-> b.rem]

\* f32::from_be_bytes / f64::from_be_bytes : the value is the bit pattern
\* whose most significant byte comes first; it is kept as that byte tuple
\* tagged with its width.
FromBeBytes(b) == [bits |-> Len(b) * 8, be |-> b]

\* ParseHelper::float
float(rem) ==
    LET b == bytes_exact(rem, 4)
    IN  IF b.ok THEN [ok |-> TRUE, val |-> FromBeBytes(b.val), rem |-> b.rem]
        ELSE [ok |-> FALSE, val |-> <<>>, rem |-> b.rem]

\* ParseHelper::double
double(rem) ==
    LET b == bytes_exact(rem, 8)
    IN  IF b.ok THEN [ok |-> TRUE, val |-> FromBeBytes(b.val), rem |-> b.rem]
        ELSE [ok |-> FALSE, val |-> <<>>, rem |-> b.rem]

\* ParseHelper::float_array::<LEN>
float_array(rem, LEN) ==
    LET b == bytes_exact(rem, 4 * LEN)
    IN  IF b.ok
        THEN [ok |-> TRUE,
              val |-> [i \in 1..LEN |-> FromBeBytes(SubSeq(b.val, 4 * i - 3, 4 * i))],
              rem |-> b.rem]
        ELSE [ok |-> FALSE, val |-> <<>>, rem |-> b.rem]

\* ParseHelper::collect_remaining : fields up to the first empty one
RECURSIVE collect_remaining(_)
collect_remaining(rem) ==
    LET b == bytes(rem)
    IN  IF Len(b.val) = 0 THEN [ok |-> TRUE, val |-> <<>>, rem |-> b.rem]
        ELSE LET r == collect_remaining(b.rem)
             IN  [ok |-> TRUE, val |-> <<b.val>> \o r.val, rem |-> r.rem]

\* ------------------------------------------------------------------------
\* Record decoders.  A schema is the ordered list of cursor calls a decoder
\* makes; every fallible call is unwrapped, so the first failure panics.
\* ------------------------------------------------------------------------
U == <<[k |-> "unsigned", n |-> 0]>>
S == <<[k |-> "string", n |-> 0]>>
B == <<[k |-> "bytes", n |-> 0]>>
F == <<[k |-> "float", n |-> 0]>>
D == <<[k |-> "double", n |-> 0]>>
FA(LEN) == <<[k |-> "float_array", n |-> LEN]>>
REST == <<[k |-> "collect_remaining", n |-> 0]>>

\* one cursor call of kind f on cursor rem: [ok, val, rem]
Field(rem, f) ==
    CASE f.k = "unsigned" -> unsigned(rem)
      [] f.k = "string" -> string(rem)
      [] f.k = "bytes" -> LET b == bytes(rem) IN [ok |-> TRUE, val |-> b.val, rem |-> b.rem]
      [] f.k = "float" -> float(rem)
      [] f.k = "double" -> double(rem)
      [] f.k = "float_array" -> float_array(rem, f.n)
      [] f.k = "collect_remaining" -> collect_remaining(rem)

\* a run that puts 0 in the place of a field whose call failed
One_or_default(r, i) ==
    IF r.ok THEN [ok |-> TRUE, rec |-> <<r.val>>, rem |-> r.rem, at |-> 0]
    ELSE [ok |-> TRUE, rec |-> <<0>>, rem |-> r.rem, at |-> 0]

\* the outcome of a run of one call: [ok, rec, rem, at], at the index of
\* the call that failed
One(r, i) ==
    IF r.ok THEN [ok |-> TRUE, rec |-> <<r.val>>, rem |-> r.rem, at |-> 0]
    ELSE [ok |-> FALSE, rec |-> <<>>, rem |-> r.rem, at |-> i]

\* the outcome of two runs, b having run on the cursor a left
Merge(a, b) ==
    IF ~b.ok THEN b
    ELSE [ok |-> TRUE, rec |-> a.rec \o b.rec, rem |-> b.rem, at |-> 0]

\* the struct literal: the calls schema[lo..hi] in order on cursor rem (the
\* range is split in halves, the second half running on the cursor the first
\* leaves, and not at all when a call of the first half failed)
RECURSIVE RunRange(_, _, _, _)
RECURSIVE RunRest(_, _, _, _)
RunRange(rem, schema, lo, hi) ==
    IF lo > hi THEN [ok |-> TRUE, rec |-> <<>>, rem |-> rem, at |-> 0]
    ELSE IF lo = hi THEN One(Field(rem, schema[lo]), lo)
    ELSE RunRest(RunRange(rem, schema, lo, (lo + hi) \div 2), schema, ((lo + hi) \div 2) + 1, hi)

RunRest(a, schema, lo, hi) ==
    IF ~a.ok THEN a ELSE Merge(a, RunRange(a.rem, schema, lo, hi))

RunSchema(rem, schema) == RunRange(rem, schema, 1, Len(schema))

\* the unwrap of the last fallible call: [out |-> "ok", rec] or a panic
Unwrapped(r) ==
    IF r.ok THEN [out |-> "ok", why |-> "", rec |-> r.rec]
    ELSE [out |-> "panic", why |-> "unwrap", rec |-> <<>>]

\* the decode behind a cursor start result s
Opened(s, schema) ==
    IF s.out = "panic" THEN [out |-> "panic", why |-> "index out of range", rec |-> <<>>]
    ELSE IF s.out = "None" THEN [out |-> "panic", why |-> "unwrap", rec |-> <<>>]
    ELSE Unwrapped(RunSchema(s.rem, schema))

\* X::parse(i) for the record with tag name and the given schema:
\* [out |-> "ok", rec] or [out |-> "panic", why]
parse(i, name, schema) == Opened(start(i, name), schema)

\* the record tags
MIB == <<77, 73, 66>>
GTB == <<71, 84, 66>>
GAB == <<71, 65, 66>>
MRB == <<77, 82, 66>>
MEB == <<77, 69, 66>>

\* array lengths of CaptureInfo
CriLen == 15
Spectral5nmLen == 81
Spectral1nmLen == 401

\* StorageInfoResp : _unk1, num_captures, num_titles
StorageInfoSchema == U \o U \o U
\* TitleInfo : name, num_captures
TitleInfoSchema == S \o U
\* the reply of the pair lookup: one unsigned
GlobalIdSchema == U
\* CaptureInfo, field by field
CaptureInfoSchema ==
    U \o S \o U \o U \o U \o U \o B \o U \o B \o U
      \o F \o F \o U \o Rep(B, 6)
      \o F \o F \o D \o D \o D \o F \o F
      \o F \o F \o F \o F \o F \o F \o F
      \o Rep(F, CriLen) \o FA(Spectral5nmLen) \o FA(Spectral1nmLen)
      \o Rep(U, 4) \o Rep(F, 2) \o F \o REST
\* CaptureData: tm_30_rf, tm_30_rg, the 16 x 4 illuminants, then the rest
CaptureDataSchema ==
    F \o F \o Rep(F, 16 * 4)
      \o F \o F \o U \o F \o U \o F \o F \o U \o Rep(F, 3) \o U \o U

\* a struct literal with num_captures and num_titles taken from each
\* other's field
StorageInfoResp_of_swapped(r) ==
    IF r.out = "ok"
    THEN [out |-> "ok", why |-> "",
          val |-> [unk1 |-> r.rec[1], num_captures |-> r.rec[3], num_titles |-> r.rec[2]]]
    ELSE [out |-> "panic", why |-> r.why, val |-> <<>>]

\* the typed value of a decode r: the fields in order
StorageInfoResp_of(r) ==
    IF r.out = "ok"
    THEN [out |-> "ok", why |-> "",
          val |-> [unk1 |-> r.rec[1], num_captures |-> r.rec[2], num_titles |-> r.rec[3]]]
    ELSE [out |-> "panic", why |-> r.why, val |-> <<>>]

TitleInfo_of(r) ==
    IF r.out = "ok"
    THEN [out |-> "ok", why |-> "", val |-> [name |-> r.rec[1], num_captures |-> r.rec[2]]]
    ELSE [out |-> "panic", why |-> r.why, val |-> <<>>]

GlobalId_of(r) ==
    IF r.out = "ok" THEN [out |-> "ok", why |-> "", val |-> r.rec[1]]
    ELSE [out |-> "panic", why |-> r.why, val |-> 0]

Record_of(r) ==
    IF r.out = "ok" THEN [out |-> "ok", why |-> "", val |-> r.rec]
    ELSE [out |-> "panic", why |-> r.why, val |-> <<>>]

\* a decoder that falls back to a zeroed record instead of failing
StorageInfoResp_parse_or_default(i) ==
    IF parse(i, MIB, StorageInfoSchema).out = "ok"
    THEN StorageInfoResp_of(parse(i, MIB, StorageInfoSchema))
    ELSE [out |-> "ok", why |-> "",
          val |-> [unk1 |-> 0, num_captures |-> 0, num_titles |-> 0]]

StorageInfoResp_parse(i) == StorageInfoResp_of(parse(i, MIB, StorageInfoSchema))

TitleInfo_parse(i) == TitleInfo_of(parse(i, GTB, TitleInfoSchema))

\* ParseHelper::start(.., "GAB").unwrap().unsigned().unwrap()
GlobalId_parse(i) == GlobalId_of(parse(i, GAB, GlobalIdSchema))

CaptureInfo_parse(i) == Record_of(parse(i, MRB, CaptureInfoSchema))

CaptureData_parse(i) == Record_of(parse(i, MEB, CaptureDataSchema))

\* ------------------------------------------------------------------------
\* The commands main sends
\* ------------------------------------------------------------------------
\* a warm-up that sends RT1 before RT0
WarmupCmds_reordered ==
    << <<83, 84>>, <<82, 84, 49>>, <<82, 84, 48>>, <<77, 78>>,
       <<83, 65, 114>>, <<70, 84, 114>>, <<70, 86>>, <<73, 85, 114>> >>

\* ST, RT0, RT1, MN, SAr, FTr, FV, IUr
WarmupCmds ==
    << <<83, 84>>, <<82, 84, 48>>, <<82, 84, 49>>, <<77, 78>>,
       <<83, 65, 114>>, <<70, 84, 114>>, <<70, 86>>, <<73, 85, 114>> >>

\* b"MI"
CmdMI == <<77, 73>>
\* format!("GT{id:04}")
CmdGT(id) == <<71, 84>> \o Fmt04(id)
\* format!("GA{title_id:04},{local_capture_id:04}")
CmdGA(title_id, local_id) == <<71, 65>> \o Fmt04(title_id) \o <<COMMA>> \o Fmt04(local_id)
\* format!("MR{global_capture_id:04}")
CmdMR(g) == <<77, 82>> \o Fmt04(g)
\* format!("ME{global_capture_id:04}")
CmdME(g) == <<77, 69>> \o Fmt04(g)

\* ------------------------------------------------------------------------
\* The device: what it may answer.  It is not trusted: any status chunk and
\* any payload of these sets may follow any command.
\* ------------------------------------------------------------------------
\* the fields fs[lo..hi] joined by commas
RECURSIVE JoinRange(_, _, _)
JoinRange(fs, lo, hi) ==
    IF lo > hi THEN <<>>
    ELSE IF lo = hi THEN fs[lo]
    ELSE LET mid == (lo + hi) \div 2
         IN  JoinRange(fs, lo, mid) \o <<COMMA>> \o JoinRange(fs, mid + 1, hi)

Join(fs) == JoinRange(fs, 1, Len(fs))

\* decimal, zero padded to a minimum width w
Pad(n, w) == LET d == Dec(n) IN IF Len(d) >= w THEN d ELSE Rep(<<DIGIT0>>, w - Len(d)) \o d

Envelope(tag, fs) == tag \o <<AT, AT>> \o Join(fs)

\* global capture ids the device hands out: not contiguous, not ordered, and
\* one of them needs five digits (the id is a u32)
GlobalIds == {10000, 7}

MIBPayload(a, b, c) == Envelope(MIB, <<Pad(a, 3), Pad(b, 4), Pad(c, 4)>>)
\* "MIB@@007,0002,0001"
MIBExample == <<77, 73, 66, 64, 64, 48, 48, 55, 44, 48, 48, 48, 50, 44, 48, 48, 48, 49>>
\* the title name is padded with NULs by the device
GTBPayload(n) == Envelope(GTB, <<<<84, 49, NUL, NUL>>, Pad(n, 4)>>)
GABPayload(g) == Envelope(GAB, <<Pad(g, 4)>>)

\* sample binary fields; a blob may hold comma bytes
F32One == <<63, 128, 0, 0>>
F32Comma == <<69, COMMA, COMMA, 0>>
F64One == <<63, 240, 0, 0, 0, 0, 0, 0>>
Zero == <<DIGIT0>>

\* the fields of a well-formed MRB payload, in schema order
MRBFields ==
    <<Zero, <<84, 49, NUL, NUL>>, <<54>>, Zero, <<DIGIT0, DIGIT0>>, Zero,
      <<NUL, NUL>>, Zero, <<NUL>>, Zero,
      F32Comma, F32One, Zero>>
      \o Rep(<<<<NUL>>>>, 6)
      \o <<F32One, F32One, F64One, F64One, F64One, F32One, F32One>>
      \o Rep(<<F32One>>, 7)
      \o Rep(<<F32One>>, CriLen)
      \o <<Rep(F32One, Spectral5nmLen), Rep(F32Comma, Spectral1nmLen)>>
      \o Rep(<<Zero>>, 4) \o Rep(<<F32One>>, 2) \o <<F32One>>

MRBPayload == Envelope(MRB, MRBFields)
\* a firmware that appends fields the schema does not know
MRBExtended == Envelope(MRB, MRBFields \o <<<<88, 49>>, <<88, 50>>>>)
\* cut inside the last binary field
MRBTruncated == SliceTo(MRBPayload, Len(MRBPayload) - 2)

MEBFields ==
    Rep(<<F32One>>, 2 + 16 * 4)
      \o <<F32One, F32One, Zero, F32One, Zero, F32One, F32One, Zero>>
      \o Rep(<<F32One>>, 3) \o <<Zero, Zero>>

MEBPayload == Envelope(MEB, MEBFields)

\* payloads that break a framing or schema assumption
Malformed ==
    { <<>>,
      MIB,
      MIB \o <<AT>>,
      MIB \o <<AT, 35>> \o Join(<<Zero, Zero, Zero>>),
      Envelope(MIB, <<Zero, Zero>>),
      Envelope(GTB, <<<<255>>, Zero>>),
      Envelope(GAB, <<<<120>>>>),
      MRBTruncated }

\* status chunks: OK, rejected, an unknown status, and chunks whose length
\* is not 2
StatusChunks ==
    { RESP_OK, RESP_BADREQ, <<6, 50>>, <<>>, <<6>>, <<6, 48, 0>>, <<21, 50, 21, 50>> }

\* ------------------------------------------------------------------------
\* The session: main from the warm-up on, with make_req unfolded into its
\* transfers.
\* ------------------------------------------------------------------------
VARIABLES
    pc,                 \* where main is: warmup, storage, title, pair, capture,
                        \*   select, filename, data, done
    wi,                 \* index of the warm-up command in progress
    rq,                 \* where make_req is: call, read1, read2, ret
    buf,                \* make_req's buf, as far as it has been written
    res,                \* make_req's res: the status, once taken from buf
    ret,                \* the Vec make_req returned
    info,               \* StorageInfoResp
    title,              \* loop variable of the outer loop
    title_info,         \* TitleInfo of the current title
    local_capture_id,   \* loop variable of the inner loop
    global_id,          \* global id of the current pair
    cap_infos,          \* BTreeMap global_id -> (cap_info, local_capture_id)
    line,               \* stdin line buffer: "empty" or "dirty"
    sel,                \* the key chosen for export
    panicked,           \* "" while the process runs, else the panic
    log,                \* transfers on the bulk endpoints, oldest first:
                        \*   [k |-> "w" or "r", data |-> the bytes moved];
                        \*   the bytes of a payload chunk are kept in inbound only
    inbound,            \* the chunk the device delivered last
    declared,           \* num_captures of each title looked up so far
    visited,            \* <<title, local_capture_id, global_id>> of each pair looked up
    src,                \* the byte string a cursor run works on
    before,             \* ParseHelper.remaining before the last cursor call
    remaining,          \* ParseHelper.remaining
    op,                 \* the last cursor call, "none" before the first
    arg,                \* its argument
    result              \* what it returned

vars ==
    <<pc, wi, rq, buf, res, ret, info, title, title_info, local_capture_id,
      global_id, cap_infos, line, sel, panicked, log, inbound, declared, visited,
      src, before, remaining, op, arg, result>>

session_vars ==
    <<pc, wi, rq, buf, res, ret, info, title, title_info, local_capture_id,
      global_id, cap_infos, line, sel, panicked, log, inbound, declared, visited>>

cursor_vars == <<src, before, remaining, op, arg, result>>

main_vars ==
    <<pc, wi, info, title, title_info, local_capture_id, global_id, cap_infos,
      line, sel, declared, visited>>

\* a session runs no free-standing cursor
NoCursor ==
    /\ src = <<>>
    /\ before = <<>>
    /\ remaining = <<>>
    /\ op = "none"
    /\ arg = 0
    /\ result = [ok |-> TRUE, val |-> <<>>]

ReqPhases == {"warmup", "storage", "title", "pair", "capture", "data"}

\* the command of the make_req call main is in
CurCmd ==
    CASE pc = "warmup" -> WarmupCmds[wi]
      [] pc = "storage" -> CmdMI
      [] pc = "title" -> CmdGT(title)
      [] pc = "pair" -> CmdGA(title, local_capture_id)
      [] pc = "capture" -> CmdMR(global_id)
      [] pc = "data" -> CmdME(sel)

\* what the device may send as a payload now.  The captures it declares
\* are bounded in total by MaxCaptures.
DevicePayloads ==
    Malformed
      \cup {MIBPayload(7, MaxCaptures, t) : t \in 0..MaxTitles}
      \cup {MIBExample}
      \cup {GTBPayload(n) : n \in 0..(MaxCaptures - Len(visited))}
      \cup {GABPayload(g) : g \in GlobalIds}
      \cup {MRBPayload, MRBExtended, MEBPayload}

SessionInit ==
    /\ pc = "warmup"
    /\ wi = 1
    /\ rq = "call"
    /\ buf = <<>>
    /\ res = <<>>
    /\ ret = <<>>
    /\ info = [unk1 |-> 0, num_captures |-> 0, num_titles |-> 0]
    /\ title = 0
    /\ title_info = [name |-> <<>>, num_captures |-> 0]
    /\ local_capture_id = 0
    /\ global_id = 0
    /\ cap_infos = <<>>
    /\ line = "empty"
    /\ sel = 0
    /\ panicked = ""
    /\ log = <<>>
    /\ inbound = <<>>
    /\ declared = <<>>
    /\ visited = <<>>

Init == SessionInit /\ NoCursor

Running == panicked = ""

\* read_bulk that writes behind what buf already holds
ReadBulk_appends(b, chunk) == b \o chunk

\* read_bulk into buf: the chunk overwrites the front of buf
ReadBulk(b, chunk) ==
    IF Len(chunk) >= Len(b) THEN chunk ELSE chunk \o SliceFrom(b, Len(chunk))

\* make_req line 44: write_bulk succeeds
Write ==
    /\ Running /\ pc \in ReqPhases /\ rq = "call"
    /\ log' = Append(log, [k |-> "w", data |-> CurCmd])
    /\ rq' = "read1"
    /\ buf' = <<>>
    /\ res' = <<>>
    /\ UNCHANGED <<ret, panicked, inbound>>
    /\ UNCHANGED main_vars
    /\ UNCHANGED cursor_vars

\* make_req line 44: write_bulk fails (timeout, I/O error) and is unwrapped
WriteFails ==
    /\ Running /\ pc \in ReqPhases /\ rq = "call"
    /\ log' = Append(log, [k |-> "w", data |-> CurCmd])
    /\ panicked' = "io"
    /\ UNCHANGED <<rq, buf, res, ret, inbound>>
    /\ UNCHANGED main_vars
    /\ UNCHANGED cursor_vars

\* a match that takes an unknown status for an empty reply
MatchRes_unknown_returns(r) ==
    IF r = RESP_OK THEN [rq |-> "read2", panic |-> ""]
    ELSE IF r = RESP_BADREQ THEN [rq |-> "read1", panic |-> "bad reqeust"]
    ELSE [rq |-> "ret", panic |-> ""]

\* a match without the RESP_BADREQ arm
MatchRes_no_badreq_arm(r) ==
    IF r = RESP_OK THEN [rq |-> "read2", panic |-> ""]
    ELSE [rq |-> "read1", panic |-> "unknown response"]

\* the match on res, lines 55-67: the next position of make_req and the
\* panic, if any
MatchRes(r) ==
    IF r = RESP_OK THEN [rq |-> "read2", panic |-> ""]
    ELSE IF r = RESP_BADREQ THEN [rq |-> "read1", panic |-> "bad reqeust"]
    ELSE [rq |-> "read1", panic |-> "unknown response"]

\* a length test that lets longer chunks through
StatusLenOk_at_least(len) == len >= 2

\* make_req line 49: the first chunk is a status when it is 2 bytes long
StatusLenOk(len) == len = 2

\* make_req lines 47-67: the first read_bulk, the length test and the match
ReadStatus ==
    /\ Running /\ rq = "read1"
    /\ \E chunk \in StatusChunks :
         LET b == ReadBulk(buf, chunk)
             len == Len(chunk)
         IN  /\ log' = Append(log, [k |-> "r", data |-> chunk])
             /\ inbound' = chunk
             /\ buf' = b
             /\ IF ~StatusLenOk(len)
                THEN /\ panicked' = "framing"
                     /\ UNCHANGED <<rq, res>>
                ELSE LET m == MatchRes(<<b[1], b[2]>>)
                     IN  /\ res' = <<b[1], b[2]>>
                         /\ rq' = m.rq
                         /\ panicked' = m.panic
    /\ UNCHANGED ret
    /\ UNCHANGED main_vars
    /\ UNCHANGED cursor_vars

\* make_req lines 57-59: the second read_bulk and the return
ReadPayload ==
    /\ Running /\ rq = "read2"
    /\ \E chunk \in DevicePayloads :
         LET b == ReadBulk(buf, chunk)
             len == Len(chunk)
         IN  /\ log' = Append(log, [k |-> "r", data |-> <<>>])
             /\ inbound' = chunk
             /\ ret' = SliceTo(b, len)
             /\ buf' = <<>>
             /\ rq' = "ret"
    /\ UNCHANGED <<res, panicked>>
    /\ UNCHANGED main_vars
    /\ UNCHANGED cursor_vars

\* make_req lines 47, 57: read_bulk fails and is unwrapped
ReadFails ==
    /\ Running /\ rq \in {"read1", "read2"}
    /\ panicked' = "io"
    /\ UNCHANGED <<rq, buf, res, ret, log, inbound>>
    /\ UNCHANGED main_vars
    /\ UNCHANGED cursor_vars

\* what leaves make_req's frame untouched once it has returned
req_done == /\ rq' = "call" /\ ret' = <<>> /\ UNCHANGED <<buf, res, log, inbound>>

\* main lines 548-555: a warm-up reply is dropped and the next command follows
WarmupNext ==
    /\ Running /\ pc = "warmup" /\ rq = "ret"
    /\ IF wi < Len(WarmupCmds)
       THEN /\ wi' = wi + 1
            /\ pc' = pc
       ELSE /\ pc' = "storage"
            /\ wi' = wi
    /\ req_done
    /\ UNCHANGED <<info, title, title_info, local_capture_id, global_id, cap_infos,
                   line, sel, panicked, declared, visited>>
    /\ UNCHANGED cursor_vars

\* the outer loop over the half-open range 1..info.num_titles
TitleLoop_exclusive(t, num_titles) == IF t < num_titles THEN "title" ELSE "select"

\* the head of `for title in 1..=info.num_titles` for the value t:
\* the next position of main
TitleLoop(t, num_titles) == IF t <= num_titles THEN "title" ELSE "select"

\* the inner loop over the half-open range 1..title_info.num_captures
CaptureLoop_exclusive(l, num_captures, t, num_titles) ==
    IF l < num_captures THEN [pc |-> "pair", title |-> t, local |-> l]
    ELSE [pc |-> TitleLoop(t + 1, num_titles), title |-> t + 1, local |-> l]

\* the head of `for local_capture_id in 1..=title_info.num_captures` for the
\* value l, in title t: another pair, the next title, or the end
CaptureLoop(l, num_captures, t, num_titles) ==
    IF l <= num_captures THEN [pc |-> "pair", title |-> t, local |-> l]
    ELSE [pc |-> TitleLoop(t + 1, num_titles), title |-> t + 1, local |-> l]

\* main after get_storage_info returned r: the panic, or info and the first
\* round of the outer loop
StorageInfoStep(r) ==
    IF r.out = "panic"
    THEN /\ panicked' = r.why
         /\ UNCHANGED <<pc, info, title>>
    ELSE /\ info' = r.val
         /\ title' = 1
         /\ pc' = TitleLoop(1, r.val.num_titles)
         /\ UNCHANGED panicked

\* main line 558: get_storage_info decodes the reply, the outer loop begins
StorageInfoDone ==
    /\ Running /\ pc = "storage" /\ rq = "ret"
    /\ StorageInfoStep(StorageInfoResp_parse(ret))
    /\ req_done
    /\ UNCHANGED <<wi, title_info, local_capture_id, global_id, cap_infos,
                   line, sel, declared, visited>>
    /\ UNCHANGED cursor_vars

\* the loop variables and position n
LoopTo(n) ==
    /\ local_capture_id' = n.local
    /\ title' = n.title
    /\ pc' = n.pc

\* main after get_title_info returned r: the panic, or title_info and the
\* first round of the inner loop
TitleInfoStep(r) ==
    IF r.out = "panic"
    THEN /\ panicked' = r.why
         /\ UNCHANGED <<pc, title, title_info, local_capture_id, declared>>
    ELSE /\ title_info' = r.val
         /\ declared' = Append(declared, r.val.num_captures)
         /\ LoopTo(CaptureLoop(1, r.val.num_captures, title, info.num_titles))
         /\ UNCHANGED panicked

\* main line 560: get_title_info decodes the reply, the inner loop begins
TitleInfoDone ==
    /\ Running /\ pc = "title" /\ rq = "ret"
    /\ TitleInfoStep(TitleInfo_parse(ret))
    /\ req_done
    /\ UNCHANGED <<wi, info, global_id, cap_infos, line, sel, visited>>
    /\ UNCHANGED cursor_vars

\* main after get_global_capture_id returned r
GlobalIdStep(r) ==
    IF r.out = "panic"
    THEN /\ panicked' = r.why
         /\ UNCHANGED <<pc, global_id, visited>>
    ELSE /\ global_id' = r.val
         /\ visited' = Append(visited, <<title, local_capture_id, r.val>>)
         /\ pc' = "capture"
         /\ UNCHANGED panicked

\* main line 562: get_global_capture_id decodes the reply
GlobalIdDone ==
    /\ Running /\ pc = "pair" /\ rq = "ret"
    /\ GlobalIdStep(GlobalId_parse(ret))
    /\ req_done
    /\ UNCHANGED <<wi, info, title, title_info, local_capture_id, cap_infos,
                   line, sel, declared>>
    /\ UNCHANGED cursor_vars

\* an insert that keeps the value a key already has
Insert_keeps_first(m, key, v) ==
    [x \in DOMAIN m \cup {key} |-> IF x \in DOMAIN m THEN m[x] ELSE v]

\* BTreeMap::insert
Insert(m, key, v) == [x \in DOMAIN m \cup {key} |-> IF x = key THEN v ELSE m[x]]

\* main after get_capture_info returned r: the panic, or the insertion and
\* the next round of the inner loop
CaptureInfoStep(r) ==
    IF r.out = "panic"
    THEN /\ panicked' = r.why
         /\ UNCHANGED <<pc, title, local_capture_id, cap_infos>>
    ELSE /\ cap_infos' = Insert(cap_infos, global_id,
                                [cap_info |-> r.val, local_capture_id |-> local_capture_id])
         /\ LoopTo(CaptureLoop(local_capture_id + 1, title_info.num_captures,
                               title, info.num_titles))
         /\ UNCHANGED panicked

\* main lines 563-568: get_capture_info decodes the reply, the record is
\* inserted under the global id, the inner loop steps
CaptureInfoDone ==
    /\ Running /\ pc = "capture" /\ rq = "ret"
    /\ CaptureInfoStep(CaptureInfo_parse(ret))
    /\ req_done
    /\ UNCHANGED <<wi, info, title_info, global_id, line, sel, declared, visited>>
    /\ UNCHANGED cursor_vars

\* what the user may type as a number
UserInputs == GlobalIds \cup {0}

\* a selection loop that takes the number typed without looking it up
Select_unchecked ==
    /\ Running /\ pc = "select"
    /\ \E i \in UserInputs :
         IF line = "empty"
         THEN /\ sel' = i
              /\ pc' = "filename"
         ELSE UNCHANGED <<sel, pc>>
    /\ line' = "dirty"
    /\ UNCHANGED <<wi, rq, buf, res, ret, info, title, title_info, local_capture_id,
                   global_id, cap_infos, panicked, log, inbound, declared, visited>>
    /\ UNCHANGED cursor_vars

\* main lines 574-583: one round of the selection loop.  read_line appends
\* to line, which the loop never clears: only the first line typed can parse.
Select ==
    /\ Running /\ pc = "select"
    /\ \E i \in UserInputs :
         IF line = "empty" /\ i \in DOMAIN cap_infos
         THEN /\ sel' = i
              /\ pc' = "filename"
         ELSE UNCHANGED <<sel, pc>>
    /\ line' = "dirty"
    /\ UNCHANGED <<wi, rq, buf, res, ret, info, title, title_info, local_capture_id,
                   global_id, cap_infos, panicked, log, inbound, declared, visited>>
    /\ UNCHANGED cursor_vars

\* main lines 584-586: the file name is read
Filename ==
    /\ Running /\ pc = "filename"
    /\ pc' = "data"
    /\ line' = "dirty"
    /\ UNCHANGED <<wi, rq, buf, res, ret, info, title, title_info, local_capture_id,
                   global_id, cap_infos, sel, panicked, log, inbound, declared, visited>>
    /\ UNCHANGED cursor_vars

\* main after get_capture_data returned r
CaptureDataStep(r) ==
    IF r.out = "panic"
    THEN /\ panicked' = r.why
         /\ UNCHANGED pc
    ELSE /\ pc' = "done"
         /\ UNCHANGED panicked

\* main lines 587-594: get_capture_data decodes the reply, the export is
\* written, the device is released
CaptureDataDone ==
    /\ Running /\ pc = "data" /\ rq = "ret"
    /\ CaptureDataStep(CaptureData_parse(ret))
    /\ req_done
    /\ UNCHANGED <<wi, info, title, title_info, local_capture_id, global_id, cap_infos,
                   line, sel, declared, visited>>
    /\ UNCHANGED cursor_vars

Next ==
    \/ Write
    \/ WriteFails
    \/ ReadStatus
    \/ ReadPayload
    \/ ReadFails
    \/ WarmupNext
    \/ StorageInfoDone
    \/ TitleInfoDone
    \/ GlobalIdDone
    \/ CaptureInfoDone
    \/ Select
    \/ Filename
    \/ CaptureDataDone

Spec == Init /\ [][Next]_vars

\* ------------------------------------------------------------------------
\* The field cursor on its own: every byte string up to a bounded length,
\* every call in every order.
\* ------------------------------------------------------------------------
\* all byte strings over alphabet A of length at most n
Strings(A, n) == UNION {[1..k -> A] : k \in 0..n}

\* a comma, a digit, a sign, the NUL pad and a byte that is not UTF-8
CursorAlphabet == {COMMA, 55, PLUS, NUL, 255}

\* "4294967296": one more than u32::MAX
OverflowExample == <<52, 50, 57, 52, 57, 54, 55, 50, 57, 54>>

\* "ABC\0garbage": a string field with bytes behind its NUL pad
StringExample == <<65, 66, 67, NUL, 103, 97, 114, 98, 97, 103, 101>>

\* longer inputs: a number with leading zeros, the largest the model's
\* integers hold (2147483647), an overflowing one, and the string field alone
\* and followed by another field, and a two-byte character before a NUL
CursorExamples ==
    {<<DIGIT0, DIGIT0, 55>>,
     <<195, 169, NUL, 55>>,
     <<50, 49, 52, 55, 52, 56, 51, 54, 52, 55>>,
     OverflowExample,
     StringExample,
     StringExample \o <<COMMA, 90>>}

CursorInit ==
    /\ SessionInit
    /\ src \in Strings(CursorAlphabet, MaxLen) \cup CursorExamples
    /\ before = src
    /\ remaining = src
    /\ op = "none"
    /\ arg = 0
    /\ result = [ok |-> TRUE, val |-> <<>>]

\* p.bytes()
CallBytes ==
    /\ LET r == bytes(remaining)
       IN  /\ result' = [ok |-> TRUE, val |-> r.val]
           /\ remaining' = r.rem
    /\ before' = remaining
    /\ op' = "bytes"
    /\ arg' = 0
    /\ UNCHANGED src
    /\ UNCHANGED session_vars

\* p.bytes_exact(len)
CallBytesExact ==
    /\ \E len \in 0..(MaxLen + 1) :
         LET r == bytes_exact(remaining, len)
         IN  /\ result' = [ok |-> r.ok, val |-> r.val]
             /\ remaining' = r.rem
             /\ arg' = len
    /\ before' = remaining
    /\ op' = "bytes_exact"
    /\ UNCHANGED src
    /\ UNCHANGED session_vars

\* p.unsigned()
CallUnsigned ==
    /\ LET r == unsigned(remaining)
       IN  /\ result' = [ok |-> r.ok, val |-> r.val]
           /\ remaining' = r.rem
    /\ before' = remaining
    /\ op' = "unsigned"
    /\ arg' = 0
    /\ UNCHANGED src
    /\ UNCHANGED session_vars

\* p.string()
CallString ==
    /\ LET r == string(remaining)
       IN  /\ result' = [ok |-> r.ok, val |-> r.val]
           /\ remaining' = r.rem
    /\ before' = remaining
    /\ op' = "string"
    /\ arg' = 0
    /\ UNCHANGED src
    /\ UNCHANGED session_vars

\* p.collect_remaining()
CallCollectRemaining ==
    /\ LET r == collect_remaining(remaining)
       IN  /\ result' = [ok |-> TRUE, val |-> r.val]
           /\ remaining' = r.rem
    /\ before' = remaining
    /\ op' = "collect_remaining"
    /\ arg' = 0
    /\ UNCHANGED src
    /\ UNCHANGED session_vars

CursorNext ==
    \/ CallBytes
    \/ CallBytesExact
    \/ CallUnsigned
    \/ CallString
    \/ CallCollectRemaining

SpecCursor == CursorInit /\ [][CursorNext]_vars

\* ------------------------------------------------------------------------
\* The envelope reader on its own: every payload up to a bounded length
\* against the tags.
\* ------------------------------------------------------------------------
\* G, A, B and the marker byte
OpenAlphabet == {71, 65, 66, AT}

\* the tags tried: one the payloads can carry, one they cannot
OpenTags == {GAB, MIB}

OpenInit ==
    /\ SessionInit
    /\ src \in Strings(OpenAlphabet, MaxPayloadLen)
    /\ before = <<>>
    /\ remaining = <<>>
    /\ op = "none"
    /\ arg = <<>>
    /\ result = [out |-> "", some |-> FALSE]

\* ParseHelper::start(src, name); a panic ends the run
CallStart ==
    /\ op = "none"
    /\ \E name \in OpenTags :
         LET r == start(src, name)
         IN  /\ result' = [out |-> r.out, some |-> r.out = "Some"]
             /\ remaining' = r.rem
             /\ arg' = name
    /\ op' = "start"
    /\ UNCHANGED <<src, before>>
    /\ UNCHANGED session_vars

OpenNext == CallStart

SpecOpen == OpenInit /\ [][OpenNext]_vars

\* ------------------------------------------------------------------------
\* Properties
\* ------------------------------------------------------------------------
IsWrite(e) == e.k = "w"
IsRead(e) == e.k = "r"

\* the commands written so far, oldest first
Commands == LET w == SelectSeq(log, IsWrite) IN [i \in 1..Len(w) |-> w[i].data]

\* the enumeration has run to its end and nothing was written since
EnumerationComplete == pc \in {"select", "filename"}

\* the enumeration has run to its end
IndexBuilt == pc \in {"select", "filename", "data", "done"}

RECURSIVE SumSeq(_)
SumSeq(q) == IF q = <<>> THEN 0 ELSE Head(q) + SumSeq(Tail(q))

\* the lookups of the captures l..n of title t, the pair lookups before it
\* numbering off: GA t,l then MR g with g the answer to that GA
RECURSIVE PairCommands(_, _, _, _)
PairCommands(t, l, n, off) ==
    IF l > n THEN <<>>
    ELSE <<CmdGA(t, l), CmdMR(visited[off + l][3])>> \o PairCommands(t, l + 1, n, off)

\* the lookups of the titles t..n
RECURSIVE TitleCommands(_, _, _)
TitleCommands(t, n, off) ==
    IF t > n THEN <<>>
    ELSE <<CmdGT(t)>> \o PairCommands(t, 1, declared[t], off)
                      \o TitleCommands(t + 1, n, off + declared[t])

\* C1: in a successful enumeration the commands written after the warm-up
\* are exactly MI, then per title in ascending order GT t followed, per local
\* id in ascending order, by GA t,l and MR g (g the answer to that GA), and
\* nothing else: none after MI for no title, 1 + 2 * num_captures for one title.
C1_EnumerationCommandSequence ==
    EnumerationComplete =>
        /\ Len(declared) = info.num_titles
        /\ Len(visited) = SumSeq(declared)
        /\ Len(Commands) >= Len(WarmupCmds)
        /\ SliceFrom(Commands, Len(WarmupCmds))
             = <<CmdMI>> \o TitleCommands(1, info.num_titles, 0)
        /\ (info.num_titles = 0 => Len(Commands) = Len(WarmupCmds) + 1)
        /\ (info.num_titles = 1 =>
              Len(Commands) = Len(WarmupCmds) + 1 + 1 + declared[1] * 2)

\* two titles with one capture each, the global ids coming back unordered
C1_Witness ==
    /\ EnumerationComplete
    /\ declared = <<1, 1>>
    /\ visited = <<<<1, 1, 10000>>, <<2, 1, 7>>>>

\* the (title_id, local_capture_id) pairs the enumeration looked up
Pairs == {<<visited[i][1], visited[i][2]>> : i \in 1..Len(visited)}

\* C2: once the index is built, the pairs visited are without duplicates and
\* are exactly the pairs (t, l) with 1 <= t <= num_titles and
\* 1 <= l <= the num_captures title t declared.
C2_VisitedPairsAreCrossProduct ==
    IndexBuilt =>
        /\ Len(declared) = info.num_titles
        /\ Cardinality(Pairs) = Len(visited)
        /\ Pairs = UNION {{<<t, l>> : l \in 1..declared[t]} : t \in 1..info.num_titles}

\* one title with two captures that the device files under one global id
C2_Witness ==
    /\ IndexBuilt
    /\ declared = <<2>>
    /\ visited = <<<<1, 1, 7>>, <<1, 2, 7>>>>

\* C3: over the whole session a command is written only when every chunk of
\* the transaction before it has been read: between two consecutive writes
\* there are exactly two reads.
C3_OneOutstandingTransaction ==
    \A i \in 1..Len(log) :
        (IsWrite(log[i]) /\ i > 1) =>
            /\ i >= 4
            /\ IsRead(log[i - 1])
            /\ IsRead(log[i - 2])
            /\ IsWrite(log[i - 3])

\* the capture-data command is on the wire after warm-up and enumeration
C3_Witness ==
    /\ pc = "data"
    /\ rq = "read1"
    /\ Len(visited) = 2
    /\ IsWrite(log[Len(log)])

\* the number of reads that directly follow the write at log[i]
ReadsAfter(i) ==
    LET stop == {j \in (i + 1)..Len(log) : IsWrite(log[j])}
        end == IF stop = {} THEN Len(log) + 1 ELSE CHOOSE j \in stop : \A k \in stop : j <= k
    IN  end - i - 1

\* log[i] is the first chunk read in its transaction
IsStatusRead(i) == i > 1 /\ IsRead(log[i]) /\ IsWrite(log[i - 1])

\* C4: one call of make_req writes its command once and never again, reads
\* one status chunk, and reads a second chunk if and only if the status is
\* exactly 06 30; it returns exactly the bytes of that second chunk, and on
\* every other 2-byte status nothing more is read and nothing is returned.
C4_SingleRoundTrip ==
    /\ \A i \in 1..Len(log) :
         IsWrite(log[i]) =>
            LET n == ReadsAfter(i)
            IN  /\ n <= 2
                /\ (n = 2 => log[i + 1].data = RESP_OK)
                /\ (n >= 1 /\ log[i + 1].data # RESP_OK) =>
                      /\ i + 1 = Len(log)
                      /\ ~Running
                      /\ rq # "ret"
                      /\ ret = <<>>
                /\ (n = 1 /\ log[i + 1].data = RESP_OK /\ Running) => rq = "read2"
    /\ rq = "ret" =>
         /\ Len(log) >= 3
         /\ IsWrite(log[Len(log) - 2])
         /\ ReadsAfter(Len(log) - 2) = 2
         /\ ret = inbound

\* a capture record with fields the schema does not know is handed back whole
C4_Witness ==
    /\ rq = "ret"
    /\ pc = "capture"
    /\ inbound = MRBExtended
    /\ ret = MRBExtended

\* C5: when the first chunk of a transaction is 15 32, make_req fails as a
\* rejected request and returns no payload.
C5_BadRequestRejected ==
    \A i \in 1..Len(log) :
        (IsStatusRead(i) /\ log[i].data = RESP_BADREQ) =>
            /\ panicked = "bad reqeust"
            /\ i = Len(log)
            /\ rq # "ret"
            /\ ret = <<>>

\* the device rejects a pair lookup in the middle of the enumeration
C5_Witness ==
    /\ pc = "pair"
    /\ Len(visited) = 1
    /\ inbound = RESP_BADREQ
    /\ panicked = "bad reqeust"

\* C6: when the first chunk of a transaction is not 2 bytes long (0, 1 or
\* more than 2 bytes), make_req fails on the framing, takes no status from
\* the chunk, reads nothing more and returns no payload.
C6_StatusChunkLength ==
    \A i \in 1..Len(log) :
        (IsStatusRead(i) /\ Len(log[i].data) # 2) =>
            /\ panicked = "framing"
            /\ res = <<>>
            /\ i = Len(log)
            /\ rq = "read1"
            /\ ret = <<>>

\* a 3-byte chunk that begins with the OK status
C6_Witness ==
    /\ panicked = "framing"
    /\ inbound = <<6, 48, 0>>
    /\ pc = "title"

\* C7 as stated: no operation aborts the process, whatever the device
\* answers (rejected, unknown or wrong-length status, wrong tag, undecodable
\* field): the process keeps running.  (A failed transfer is no answer of
\* the device and is left aside.)
C7_NoAbort == panicked \in {"", "io"}

\* the reply rq hands to main decodes as what main expects at pc; told from
\* the cursor calls themselves
Decodes(position, payload) ==
    LET tag == CASE position = "storage" -> MIB
                 [] position = "title" -> GTB
                 [] position = "pair" -> GAB
                 [] position = "capture" -> MRB
                 [] position = "data" -> MEB
        schema == CASE position = "storage" -> StorageInfoSchema
                    [] position = "title" -> TitleInfoSchema
                    [] position = "pair" -> GlobalIdSchema
                    [] position = "capture" -> CaptureInfoSchema
                    [] position = "data" -> CaptureDataSchema
        s == start(payload, tag)
    IN  s.out = "Some" /\ RunSchema(s.rem, schema).ok

\* C8: when a transaction or a decode fails during the enumeration, the
\* enumeration stops there: that step is the failure the caller sees, and
\* afterwards no command is written and no entry is inserted.
C8_FailureStopsEnumeration ==
    [][ /\ (/\ rq = "read1"
            /\ pc \in {"storage", "title", "pair", "capture"}
            /\ log' # log
            /\ inbound' # RESP_OK)
              => (panicked' # "" /\ cap_infos' = cap_infos)
        /\ (/\ rq = "ret"
            /\ pc \in {"storage", "title", "pair", "capture"}
            /\ ~Decodes(pc, ret))
              => (panicked' # "" /\ cap_infos' = cap_infos /\ log' = log)
        /\ (panicked # "")
              => (panicked' = panicked /\ cap_infos' = cap_infos /\ log' = log)
      ]_vars

\* the second capture record of a title is cut short: the index keeps the
\* first entry only
C8_Witness ==
    /\ panicked = "unwrap"
    /\ pc = "capture"
    /\ inbound = MRBTruncated
    /\ Len(visited) = 2
    /\ DOMAIN cap_infos = {10000}

\* C9: bytes_exact(n) fails if fewer than n bytes remain or if the byte at
\* offset n exists and is not a comma; otherwise it returns the first n
\* remaining bytes verbatim, commas included, and moves the cursor past them
\* and past the comma that follows, when there is one.
C9_BytesExact ==
    op = "bytes_exact" =>
        LET n == arg
            r == before
        IN  IF n > Len(r) \/ (n < Len(r) /\ r[n + 1] # COMMA)
            THEN ~result.ok
            ELSE /\ result.ok
                 /\ result.val = [i \in 1..n |-> r[i]]
                 /\ remaining = [i \in 1..(Len(r) - n - 1) |-> r[n + 1 + i]]

\* a 2-byte blob made of commas, followed by its comma and one more byte
C9_Witness ==
    /\ op = "bytes_exact"
    /\ arg = 2
    /\ before = <<COMMA, COMMA, COMMA, 55>>
    /\ result = [ok |-> TRUE, val |-> <<COMMA, COMMA>>]
    /\ remaining = <<55>>

\* C10 as stated: for every payload of every length and every tag, start
\* returns a cursor on the bytes after tag and marker when the payload
\* starts with the tag followed by "@@", and None otherwise; nothing else.
C10_StartIsTotal ==
    op = "start" =>
        IF StartsWith(src, arg \o <<AT, AT>>)
        THEN /\ result.out = "Some"
             /\ remaining = SliceFrom(src, Len(arg) + 2)
        ELSE result.out = "None"

\* s is exactly four ASCII decimal digits
IsDigits4(s) == Len(s) = 4 /\ \A i \in 1..4 : IsDigit(s[i])

\* command c is the two letters of prefix followed by one 4-digit argument
OneArg4(c, prefix) ==
    /\ Len(c) = 6
    /\ SliceTo(c, 2) = prefix
    /\ IsDigits4(SliceFrom(c, 2))

\* command c is GA followed by two 4-digit arguments separated by a comma
TwoArgs4(c) ==
    /\ Len(c) = 11
    /\ SliceTo(c, 2) = <<71, 65>>
    /\ IsDigits4(SubSeq(c, 3, 6))
    /\ c[7] = COMMA
    /\ IsDigits4(SubSeq(c, 8, 11))

\* c is a title-lookup, pair-lookup, capture-info or capture-data command
IsNumericCommand(c) ==
    Len(c) >= 2 /\ SliceTo(c, 2) \in {<<71, 84>>, <<71, 65>>, <<77, 82>>, <<77, 69>>}

\* C11 as stated: whatever ids the loops and the device supply, every GT,
\* GA, MR and ME command written carries each numeric argument as exactly
\* four decimal digits.
C11_FixedWidthArguments ==
    \A i \in 1..Len(Commands) :
        IsNumericCommand(Commands[i]) =>
            \/ OneArg4(Commands[i], <<71, 84>>)
            \/ OneArg4(Commands[i], <<77, 82>>)
            \/ OneArg4(Commands[i], <<77, 69>>)
            \/ TwoArgs4(Commands[i])

\* the first comma-delimited field of r
FirstField(r) ==
    LET c == {i \in 1..Len(r) : r[i] = COMMA}
    IN  IF c = {} THEN r ELSE [i \in 1..((CHOOSE k \in c : \A j \in c : k <= j) - 1) |-> r[i]]

\* what is left of r behind its first field and the comma after it
AfterFirstField(r) ==
    LET n == Len(FirstField(r))
    IN  [i \in 1..(Len(r) - n - 1) |-> r[n + 1 + i]]

\* digit string d without its leading zeros
RECURSIVE StripZeros(_)
StripZeros(d) == IF d # <<>> /\ d[1] = DIGIT0 THEN StripZeros(Tail(d)) ELSE d

\* digit strings of equal length: a is at most b
RECURSIVE DigitsLeq(_, _)
DigitsLeq(a, b) ==
    \/ a = <<>>
    \/ a[1] < b[1]
    \/ a[1] = b[1] /\ DigitsLeq(Tail(a), Tail(b))

\* "4294967295"
U32MaxDigits == <<52, 50, 57, 52, 57, 54, 55, 50, 57, 53>>

\* the value of digit string d is at most 2^32 - 1
FitsU32(d) ==
    LET z == StripZeros(d)
    IN  \/ Len(z) < 10
        \/ Len(z) = 10 /\ DigitsLeq(z, U32MaxDigits)

\* the number a digit string denotes
RECURSIVE DecValue(_)
DecValue(d) ==
    IF d = <<>> THEN 0 ELSE DecValue(SliceTo(d, Len(d) - 1)) * 10 + (d[Len(d)] - DIGIT0)

\* C12 as stated: unsigned consumes one delimited field and succeeds with
\* value v exactly when the field is a non-empty string of decimal digits
\* whose value v fits in 32 bits; a field with any other byte (a sign
\* included), an empty field and an overflowing one all fail.
C12_UnsignedDigitsOnly ==
    op = "unsigned" =>
        LET f == FirstField(before)
            digits == f # <<>> /\ \A i \in 1..Len(f) : IsDigit(f[i])
        IN  /\ remaining = AfterFirstField(before)
            /\ result.ok <=> (digits /\ FitsU32(f))
            /\ result.ok => result.val = DecValue(f)

\* the comma-delimited fields of r, in order, the empty ones included
RECURSIVE SplitFields(_)
SplitFields(r) ==
    IF \A i \in 1..Len(r) : r[i] # COMMA THEN <<r>>
    ELSE <<FirstField(r)>> \o SplitFields(AfterFirstField(r))

NonEmpty(f) == f # <<>>

\* C13 as stated: collect_remaining leaves the cursor exhausted and returns,
\* in order, every non-empty comma-delimited field of what remained, those
\* behind an empty field included.
C13_CollectsEveryNonEmptyField ==
    op = "collect_remaining" =>
        /\ remaining = <<>>
        /\ result.val = SelectSeq(SplitFields(before), NonEmpty)

\* C14: bytes never fails.  It returns what remains up to but excluding the
\* first comma, or all of it when there is no comma; the cursor moves past
\* the returned bytes and past that comma when there is one; on an exhausted
\* cursor it returns the empty slice and the cursor stays exhausted.
C14_BytesNeverFails ==
    op = "bytes" =>
        LET r == before
            c == {i \in 1..Len(r) : r[i] = COMMA}
        IN  /\ result.ok
            /\ IF c = {}
               THEN /\ result.val = r
                    /\ remaining = <<>>
               ELSE \E k \in c :
                      /\ \A j \in 1..(k - 1) : r[j] # COMMA
                      /\ result.val = [i \in 1..(k - 1) |-> r[i]]
                      /\ remaining = [i \in 1..(Len(r) - k) |-> r[k + i]]
            /\ (r = <<>> => (result.val = <<>> /\ remaining = <<>>))

\* a second call: the field between the first comma and the second, the
\* cursor left on what follows the second
C14_Witness ==
    /\ op = "bytes"
    /\ src = <<55, COMMA, PLUS, COMMA>>
    /\ before = <<PLUS, COMMA>>
    /\ result.val = <<PLUS>>
    /\ remaining = <<>>

\* C15 as stated: after the enumeration every entry of the index, keyed by
\* a global id, holds the capture record, the local_capture_id and the
\* title_id it was found under, and no two entries of one title have the
\* same local_capture_id.
C15_EntriesCarryTitleId ==
    IndexBuilt =>
        /\ \A g \in DOMAIN cap_infos :
             {"cap_info", "local_capture_id", "title_id"} \subseteq DOMAIN cap_infos[g]
        /\ \A g, h \in DOMAIN cap_infos :
             (/\ g # h
              /\ cap_infos[g].title_id = cap_infos[h].title_id)
                => cap_infos[g].local_capture_id # cap_infos[h].local_capture_id

\* the cursor calls schema[lo..hi] made one after the other on cursor rem,
\* each on the cursor the one before left: [ok, rec, rem], ok only if every
\* call succeeded, rec then holding one value per call
RECURSIVE CallsInOrder(_, _, _, _)
CallsInOrder(rem, schema, lo, hi) ==
    IF hi < lo THEN [ok |-> TRUE, rec |-> <<>>, rem |-> rem]
    ELSE LET p == CallsInOrder(rem, schema, lo, hi - 1)
         IN  IF ~p.ok THEN p
             ELSE LET r == Field(p.rem, schema[hi])
                  IN  IF r.ok
                      THEN [ok |-> TRUE, rec |-> Append(p.rec, r.val), rem |-> r.rem]
                      ELSE [ok |-> FALSE, rec |-> <<>>, rem |-> r.rem]

\* the same for a whole schema, sixteen calls at a time
RECURSIVE CallsFrom(_, _, _)
CallsFrom(p, schema, lo) ==
    IF lo > Len(schema) \/ ~p.ok THEN p
    ELSE LET q == CallsInOrder(p.rem, schema, lo, min(lo + 15, Len(schema)))
         IN  CallsFrom([ok |-> q.ok, rec |-> p.rec \o q.rec, rem |-> q.rem], schema, lo + 16)

\* envelope open and field calls of the decoder main runs at position
Decoded(position, payload) ==
    LET tag == CASE position = "storage" -> MIB
                 [] position = "title" -> GTB
                 [] position = "capture" -> MRB
                 [] position = "data" -> MEB
        schema == CASE position = "storage" -> StorageInfoSchema
                    [] position = "title" -> TitleInfoSchema
                    [] position = "capture" -> CaptureInfoSchema
                    [] position = "data" -> CaptureDataSchema
        s == start(payload, tag)
    IN  IF s.out # "Some" THEN [ok |-> FALSE, rec |-> <<>>, n |-> Len(schema)]
        ELSE LET d == CallsFrom([ok |-> TRUE, rec |-> <<>>, rem |-> s.rem], schema, 1)
             IN  [ok |-> d.ok, rec |-> d.rec, n |-> Len(schema)]

\* C16: each of the four record decoders is all-or-nothing.  When the
\* envelope opens and every cursor call of the schema succeeds in order, the
\* record main receives holds, field by field, what those calls returned;
\* when the open or any call fails there is no record at all: the decoder
\* fails and main keeps nothing of the payload.
C16_DecodeAllOrNothing ==
    [][ (Running /\ rq = "ret" /\ pc \in {"storage", "title", "capture", "data"}) =>
          LET d == Decoded(pc, ret)
          IN  IF d.ok
              THEN /\ panicked' = ""
                   /\ Len(d.rec) = d.n
                   /\ pc = "storage" =>
                        info' = [unk1 |-> d.rec[1], num_captures |-> d.rec[2],
                                 num_titles |-> d.rec[3]]
                   /\ pc = "title" =>
                        title_info' = [name |-> d.rec[1], num_captures |-> d.rec[2]]
                   /\ pc = "capture" =>
                        /\ global_id \in DOMAIN cap_infos'
                        /\ cap_infos'[global_id].cap_info = d.rec
                   /\ pc = "data" =>
                        /\ CaptureData_parse(ret) = [out |-> "ok", why |-> "", val |-> d.rec]
                        /\ pc' = "done"
              ELSE /\ panicked' # ""
                   /\ pc' = pc
                   /\ info' = info
                   /\ title_info' = title_info
                   /\ cap_infos' = cap_infos
                   /\ pc = "data" => CaptureData_parse(ret).out = "panic"
      ]_vars

\* the export ran: the capture-data record decoded from a well-formed payload
C16_Witness ==
    /\ pc = "done"
    /\ panicked = ""
    /\ inbound = MEBPayload
    /\ sel = 7

\* the positions of the capture-data commands among the commands written
DataCommands == {i \in 1..Len(Commands) : SliceTo(Commands[i], 2) = <<77, 69>>}

\* C17: the index is built once and never modified once the enumeration is
\* complete; no capture-data command is written during the enumeration, at
\* most one is written afterwards, it names a key of the index, and its
\* result is not stored in the index.
C17_IndexImmutableAfterEnumeration ==
    /\ [](/\ ~IndexBuilt => DataCommands = {}
          /\ Cardinality(DataCommands) <= 1
          /\ \A i \in DataCommands :
               \E g \in DOMAIN cap_infos : Commands[i] = <<77, 69>> \o Fmt04(g))
    /\ [][IndexBuilt => (IndexBuilt' /\ cap_infos' = cap_infos)]_vars

\* the export of one of two indexed captures ran to its end
C17_Witness ==
    /\ pc = "done"
    /\ DOMAIN cap_infos = {7, 10000}
    /\ sel = 10000
    /\ DataCommands # {}

\* C18: string consumes one whole delimited field, whatever it holds, and
\* moves the cursor past it and past the comma behind it; when the field is
\* decodable text it returns the field cut just before its first NUL byte,
\* or the whole field when it has none, and fails only when it is not
\* decodable.  On ABC\0garbage it returns ABC.
C18_StringTruncatesAtNul ==
    op = "string" =>
        LET f == FirstField(before)
            nul == {i \in 1..Len(f) : f[i] = NUL}
        IN  /\ remaining = AfterFirstField(before)
            /\ result.ok <=> IsUtf8(f)
            /\ result.ok =>
                 /\ \A i \in 1..Len(result.val) : result.val[i] # NUL /\ result.val[i] = f[i]
                 /\ IF nul = {} THEN Len(result.val) = Len(f)
                    ELSE Len(result.val) + 1 \in nul
            /\ FirstField(before) = StringExample => result = [ok |-> TRUE, val |-> <<65, 66, 67>>]

\* the padded field followed by another field: the bytes behind the NUL are
\* dropped and the cursor stands on the next field
C18_Witness ==
    /\ op = "string"
    /\ before = StringExample \o <<COMMA, 90>>
    /\ result = [ok |-> TRUE, val |-> <<65, 66, 67>>]
    /\ remaining = <<90>>

\* f is a non-empty string of decimal digits
IsDigits(f) == f # <<>> /\ \A i \in 1..Len(f) : IsDigit(f[i])

\* C19: a StorageInfo payload MIB@@a,b,c of three decimal fields (leading
\* zeros allowed) decodes to _unk1 = a, num_captures = b, num_titles = c in
\* that order; MIB@@007,0002,0001 gives 7, 2, 1; and the titles the
\* enumeration then walks are as many as the third field says.
C19_StorageInfoPositional ==
    /\ [][ (Running /\ pc = "storage" /\ rq = "ret" /\ StartsWith(ret, MIB \o <<AT, AT>>)) =>
             LET body == SliceFrom(ret, 5)
                 a == FirstField(body)
                 b == FirstField(AfterFirstField(body))
                 c == AfterFirstField(AfterFirstField(body))
             IN  /\ (IsDigits(a) /\ IsDigits(b) /\ IsDigits(c)) =>
                       /\ panicked' = ""
                       /\ info' = [unk1 |-> DecValue(a), num_captures |-> DecValue(b),
                                   num_titles |-> DecValue(c)]
                 /\ ret = MIBExample =>
                       info' = [unk1 |-> 7, num_captures |-> 2, num_titles |-> 1]
         ]_vars
    /\ [](EnumerationComplete => Len(declared) = info.num_titles)

\* the example payload was decoded and the enumeration walked its one title
C19_Witness ==
    /\ EnumerationComplete
    /\ info = [unk1 |-> 7, num_captures |-> 2, num_titles |-> 1]
    /\ declared = <<2>>

\* ST, RT0, RT1, MN, SAr, FTr, FV, IUr
Handshake ==
    <<<<83, 84>>, <<82, 84, 48>>, <<82, 84, 49>>, <<77, 78>>,
      <<83, 65, 114>>, <<70, 84, 114>>, <<70, 86>>, <<73, 85, 114>>>>

\* C20: the warm-up is issued once per session: the first eight commands
\* written are ST, RT0, RT1, MN, SAr, FTr, FV, IUr in that order and none of
\* them is written again; each is a complete transaction (command, status
\* 06 30, payload) before the next command; its payload, whatever it is, is
\* dropped without being looked at; and MI is written only after all eight.
C20_WarmupOnceInOrder ==
    /\ [](/\ \A i \in 1..Len(Commands) :
               /\ i <= 8 => Commands[i] = Handshake[i]
               /\ i > 8 => \A k \in 1..8 : Commands[i] # Handshake[k]
               /\ Commands[i] = <<77, 73>> => i = 9
          /\ \A k \in 1..8 :
               Len(log) > 3 * k =>
                 /\ log[3 * k - 2] = [k |-> "w", data |-> Handshake[k]]
                 /\ log[3 * k - 1] = [k |-> "r", data |-> RESP_OK]
                 /\ IsRead(log[3 * k])
                 /\ IsWrite(log[3 * k + 1])
          /\ pc = "warmup" <=> Len(log) < 24 \/ (Len(log) = 24 /\ rq = "ret"))
    /\ [][ (Running /\ pc = "warmup" /\ rq = "ret") =>
             /\ panicked' = ""
             /\ <<info, title, title_info, cap_infos, declared, visited>>'
                  = <<info, title, title_info, cap_infos, declared, visited>>
             /\ pc' = IF Len(log) = 24 THEN "storage" ELSE "warmup"
         ]_vars

\* the last warm-up payload was a truncated capture record; MI is on the wire
C20_Witness ==
    /\ pc = "storage"
    /\ rq = "read1"
    /\ Len(Commands) = 9
    /\ inbound = MRBTruncated

\* C21 as stated: after a successful enumeration the index has one entry
\* for every pair visited: its size is the sum of the num_captures the titles
\* declared, whatever global ids the device returned, equal ones included.
C21_IndexSizeIsPairCount ==
    IndexBuilt =>
        /\ Cardinality(DOMAIN cap_infos) = Len(visited)
        /\ Cardinality(DOMAIN cap_infos) = SumSeq(declared)

\* the global ids returned to the pair lookups, as a set
ReturnedIds == {visited[i][3] : i \in 1..Len(visited)}

\* the last pair lookup that returned global id g
LastLookup(g) ==
    CHOOSE i \in 1..Len(visited) :
        /\ visited[i][3] = g
        /\ \A j \in 1..Len(visited) : visited[j][3] = g => j <= i

\* C21 amended: after a successful enumeration the index has one entry for
\* every distinct global id returned to the pair lookups, holding the
\* local_capture_id of the last pair that id was returned for; its size is
\* the sum of the declared num_captures exactly when no id was returned twice.
C21_IndexHoldsLastPairPerId ==
    IndexBuilt =>
        /\ DOMAIN cap_infos = ReturnedIds
        /\ \A g \in DOMAIN cap_infos :
             cap_infos[g].local_capture_id = visited[LastLookup(g)][2]
        /\ Len(visited) = SumSeq(declared)
        /\ Cardinality(DOMAIN cap_infos) = SumSeq(declared)
             <=> Cardinality(ReturnedIds) = Len(visited)

\* two titles with one capture each, both filed under global id 7: one entry
C21_Witness ==
    /\ IndexBuilt
    /\ declared = <<1, 1>>
    /\ visited = <<<<1, 1, 7>>, <<2, 1, 7>>>>
    /\ DOMAIN cap_infos = {7}

====
